---- MODULE Spec2Model ----
(***************************************************************************)
(* A model of colorella's `colormap` class (src/colormap.py): the          *)
(* constructor with its three file parsers, and the transforms reverse,    *)
(* from_gradient, listed2segmented, convert2greyscale, change, cmap_xmap.  *)
(*                                                                         *)
(* Numbers.  A position p in [0,1] is the integer p * PosUnit, a channel   *)
(* value v in [0,1] is the integer v * ValUnit; a float division is the    *)
(* integer division of the scaled numbers.  PosUnit is chosen so that      *)
(* every position the model computes is exact.                             *)
(*                                                                         *)
(* The interpreter is Python 3 (`return print(...)` at line 121 does not   *)
(* parse under Python 2): `map` returns an iterator, and reading a local   *)
(* variable that was never assigned raises UnboundLocalError.              *)
(***************************************************************************)
EXTENDS Integers, Sequences, FiniteSets, TLC

VARIABLES pc, self, heap, ret, err, call, file, loc

vars == <<pc, self, heap, ret, err, call, file, loc>>

----------------------------------------------------------------------------
(* Bounds of the model *)

\* longest colour list and longest file (in lines) an input holds
MaxLen == 3
\* most control points a channel list of a segment dict argument holds
MaxPts == 4
\* most method calls on one instance
MaxCalls == 2
\* size of a map's lookup table where the library's default (256) applies
LutN == 3
\* largest raw position a row of a .cpt file names
MaxX == 2

\* 1.0 as a channel value: the parsers divide raw 0..255 values by 255
ValUnit == 255

----------------------------------------------------------------------------
(* Arithmetic helpers *)

Max(a, b) == IF a >= b THEN a ELSE b

RECURSIVE Gcd(_, _)
Gcd(a, b) == IF b = 0 THEN a ELSE Gcd(b, a % b)

RECURSIVE LcmUpTo(_)
LcmUpTo(n) == IF n <= 1 THEN 1 ELSE LET l == LcmUpTo(n - 1) IN (l * n) \div Gcd(l, n)

\* 1.0 as a position: divisible by every denominator the model meets
\* (i/(n-1) for n colours or LUT entries, (x - x0)/(xn - x0) for raw x).
PosUnit == 2 * LcmUpTo(Max(Max(MaxLen, LutN) - 1, MaxX))

\* floor of the square root
ISqrt(n) == CHOOSE k \in 0..ValUnit + 1 : k * k <= n /\ n < (k + 1) * (k + 1)

----------------------------------------------------------------------------
(* Control-point lists *)

\* Python's order on tuples (position, value_before, value_after)
TupleLess(a, b) ==
    \/ a[1] < b[1]
    \/ a[1] = b[1] /\ a[2] < b[2]
    \/ a[1] = b[1] /\ a[2] = b[2] /\ a[3] < b[3]

\* one element put in its place in a sorted list
RECURSIVE Insert(_, _)
Insert(t, s) ==
    IF s = <<>> THEN <<t>>
    ELSE IF TupleLess(Head(s), t) THEN <<Head(s)>> \o Insert(t, Tail(s))
    ELSE <<t>> \o s

\* sorted(data) and list.sort() on a list of tuples
RECURSIVE Sorted(_)
Sorted(s) == IF s = <<>> THEN <<>> ELSE Insert(Head(s), Sorted(Tail(s)))

\* s[::-1]
Reversed(s) == [i \in 1..Len(s) |-> s[Len(s) + 1 - i]]

Positions(pts) == {pts[i][1] : i \in 1..Len(pts)}

Keys == <<"red", "green", "blue">>

KeyIndex(key) == CHOOSE i \in 1..3 : Keys[i] = key

----------------------------------------------------------------------------
(* The functions a caller hands to cmap_xmap (on positions) and to change  *)
(* (on colours).                                                           *)

\* p, p + 0.5 and p / 2
XFuncs == {"id", "shift", "half"}

ApplyX(g, p) ==
    CASE g = "id"    -> p
      [] g = "shift" -> p + PosUnit \div 2
      [] g = "half"  -> p \div 2

\* the two of change's docstring (x*0.75 and x/2 + 0.5), and the identity
VFuncs == {"id", "dark", "light"}

ApplyV(f, c) ==
    CASE f = "id"    -> c
      [] f = "dark"  -> [i \in 1..3 |-> (c[i] * 3) \div 4]
      [] f = "light" -> [i \in 1..3 |-> c[i] \div 2 + ValUnit \div 2]

----------------------------------------------------------------------------
(* The two map classes of matplotlib.colors, as far as the program uses    *)
(* them.  An entry of a segment dict is a list of control points, or,      *)
(* after cmap_xmap's line 532, a `map` iterator: functions fns still to be *)
(* applied to the points pts it has not yet handed out.                    *)

ListChannel(pts) == [lazy |-> FALSE, fns |-> <<>>, pts |-> pts]

\* map(function_to_map, ch): over a list, or over another iterator
MapChannel(g, ch) == [lazy |-> TRUE, fns |-> Append(ch.fns, g), pts |-> ch.pts]

\* function_to_map of line 530, for every function of the chain in turn
RECURSIVE ApplyAll(_, _)
ApplyAll(fns, c) ==
    IF fns = <<>> THEN c
    ELSE ApplyAll(Tail(fns), <<ApplyX(Head(fns), c[1]), c[2], c[3]>>)

\* the elements a loop over the entry sees
ChannelItems(ch) == [i \in 1..Len(ch.pts) |-> ApplyAll(ch.fns, ch.pts[i])]

\* the entry after a loop over it: an iterator hands out nothing more
Drained(ch) == IF ch.lazy THEN [ch EXCEPT !.pts = <<>>] ELSE ch

SegmentData(r, g, b) == [red |-> ListChannel(r), green |-> ListChannel(g), blue |-> ListChannel(b)]

NoSegmentData == SegmentData(<<>>, <<>>, <<>>)

\* col.ListedColormap(colors): N is len(colors)
ListedColormap(colors) ==
    [kind |-> "Listed", colors |-> colors, segmentdata |-> NoSegmentData,
     isNone |-> FALSE, N |-> Len(colors), lut |-> <<>>]

\* col.LinearSegmentedColormap(name, segmentdata, N): the dict is kept as given
LinearSegmentedColormap(segmentdata, n) ==
    [kind |-> "Segmented", colors |-> <<>>, segmentdata |-> segmentdata,
     isNone |-> FALSE, N |-> n, lut |-> <<>>]

\* col.LinearSegmentedColormap(name, None): nothing is checked at construction
SegmentedOfNone ==
    [kind |-> "Segmented", colors |-> <<>>, segmentdata |-> NoSegmentData,
     isNone |-> TRUE, N |-> LutN, lut |-> <<>>]

\* LinearSegmentedColormap.from_list(name, colors, N): one control point per
\* colour at i/(n-1), value_before = value_after
FromList(colors, n) ==
    LET k == Len(colors)
        chan(c) == [i \in 1..k |-> <<((i - 1) * PosUnit) \div (k - 1), colors[i][c], colors[i][c]>>]
    IN  LinearSegmentedColormap(SegmentData(chan(1), chan(2), chan(3)), n)

\* what makeMappingArray accepts: a list of points from 0 to 1, not decreasing
ValidChannel(ch) ==
    /\ ~ch.lazy
    /\ Len(ch.pts) >= 1
    /\ ch.pts[1][1] = 0
    /\ ch.pts[Len(ch.pts)][1] = PosUnit
    /\ \A i \in 1..Len(ch.pts) - 1 : ch.pts[i][1] <= ch.pts[i + 1][1]

Clip(v) == IF v < 0 THEN 0 ELSE IF v > ValUnit THEN ValUnit ELSE v

\* makeMappingArray(N, data): entry i (from 0) is the channel at i/(N-1),
\* interpolated from the value_after of the point on the left to the
\* value_before of the first point at or right of it
ChannelLut(n, pts) ==
    [j \in 1..n |->
        IF j = 1 THEN Clip(pts[1][3])
        ELSE IF j = n THEN Clip(pts[Len(pts)][2])
        ELSE LET xi  == (j - 1) * PosUnit
                 ind == CHOOSE k \in 2..Len(pts) :
                            /\ pts[k][1] * (n - 1) >= xi
                            /\ \A m \in 1..k - 1 : pts[m][1] * (n - 1) < xi
                 lo  == pts[ind - 1]
                 hi  == pts[ind]
             IN  Clip(lo[3] + ((xi - lo[1] * (n - 1)) * (hi[2] - lo[3]))
                                 \div ((hi[1] - lo[1]) * (n - 1)))]

\* the exception Colormap._init raises, "none" if it builds the table
InitError(o) ==
    IF o.kind = "Listed" \/ o.lut # <<>> THEN "none"
    ELSE IF o.isNone THEN "TypeError"
    ELSE IF \E i \in 1..3 : ~ValidChannel(o.segmentdata[Keys[i]]) THEN "ValueError"
    ELSE "none"

\* the table _init builds (kept in the object from the first call on)
Lut(o) ==
    IF o.kind = "Listed" THEN o.colors
    ELSE IF o.lut # <<>> THEN o.lut
    ELSE LET t(c) == ChannelLut(o.N, o.segmentdata[Keys[c]].pts)
         IN  [j \in 1..o.N |-> <<t(1)[j], t(2)[j], t(3)[j]>>]

\* the object after a call of it: the table is built once
Initialised(o) == IF o.kind = "Listed" THEN o ELSE [o EXCEPT !.lut = Lut(o)]

\* cmap(x)[0:3] for a float x: entry int(x * N), the last for x >= 1 (the
\* "over" colour), the first for x < 0 (the "under" colour)
AtPosition(o, p) ==
    LET i == IF p >= PosUnit THEN o.N - 1
             ELSE IF p < 0 THEN 0
             ELSE (p * o.N) \div PosUnit
    IN  Lut(o)[i + 1]

----------------------------------------------------------------------------
(* Strings are sequences of characters *)

Dot == "."

HasDot(s) == \E i \in 1..Len(s) : s[i] = Dot

\* os.path.splitext on a name without directory part: split at the last
\* dot, unless only dots stand before it
SplitExt(s) ==
    IF ~HasDot(s) THEN <<s, <<>>>>
    ELSE LET i == CHOOSE k \in 1..Len(s) : s[k] = Dot /\ \A m \in k + 1..Len(s) : s[m] # Dot
         IN  IF \A m \in 1..i - 1 : s[m] = Dot THEN <<s, <<>>>>
             ELSE <<SubSeq(s, 1, i - 1), SubSeq(s, i, Len(s))>>

ExtCpt == <<".", "c", "p", "t">>
ExtCt == <<".", "c", "t">>
ExtJson == <<".", "j", "s", "o", "n">>
ExtTxt == <<".", "t", "x", "t">>

NameViridis == <<"v", "i", "r", "i", "d", "i", "s">>
NameJet == <<"j", "e", "t">>
NameUnknown == <<"n", "o", "n", "e">>
Stem == <<"m">>

----------------------------------------------------------------------------
(* Colours and control-point lists the inputs are drawn from *)

Black == <<0, 0, 0>>
Red == <<ValUnit, 0, 0>>
White == <<ValUnit, ValUnit, ValUnit>>

Palette == {Red, White}

\* the lists of n elements of S
SeqsOfLen(S, n) == [1..n -> S]

SeqsBetween(S, lo, hi) == UNION {SeqsOfLen(S, n) : n \in lo..hi}

\* colour lists: at least two colours (from_list divides by len - 1)
ColourLists == SeqsBetween(Palette, 2, MaxLen)

Half == PosUnit \div 2

Quarter == PosUnit \div 4

\* the points between the first and the last of a channel list: a point at
\* 0.25, and at 0.5 a jump up, a jump down and a point without a jump
MidPoints == {<<Quarter, ValUnit, ValUnit>>, <<Half, 0, ValUnit>>, <<Half, ValUnit, 0>>,
              <<Half, ValUnit, ValUnit>>}

\* channel lists as the data model allows them: positions not decreasing,
\* the first 0, the last 1; two points may share a position
ChannelLists ==
    {<<<<0, 0, 0>>>> \o m \o <<z>> :
        z \in {<<PosUnit, ValUnit, ValUnit>>, <<PosUnit, 0, 0>>},
        m \in {t \in SeqsBetween(MidPoints, 0, MaxPts - 2) :
                 \A i \in 1..Len(t) - 1 : t[i][1] <= t[i + 1][1]}}

Ramp == <<<<0, 0, 0>>, <<PosUnit, ValUnit, ValUnit>>>>

Peak == <<<<0, 0, 0>>, <<Half, ValUnit, ValUnit>>, <<PosUnit, 0, 0>>>>

\* segment dicts: every list for red, beside a green list without and a blue
\* list with a point of its own
SegmentDicts == {SegmentData(r, Ramp, Peak) : r \in ChannelLists}

\* plt.colormaps() and cm.get_cmap: a Listed and a Segmented registered map
Registered == {NameViridis, NameJet}

GetCmap(name) ==
    IF name = NameViridis THEN ListedColormap(<<Black, Red, White>>)
    ELSE LinearSegmentedColormap(SegmentData(Peak, Ramp, Ramp), LutN)

----------------------------------------------------------------------------
(* Text files: a line is its tokens (l.split()) and whether it starts with *)
(* white space; a token is a word or a number.                             *)

Num(n) == [word |-> "", num |-> n]

Word(w) == [word |-> w, num |-> 0]

Line(toks) == [indent |-> FALSE, toks |-> toks]

Indented(toks) == [indent |-> TRUE, toks |-> toks]

Nums(ns) == [i \in 1..Len(ns) |-> Num(ns[i])]

BlankLine == Line(<<>>)

CommentLine(model) == Line(<<Word("#"), Word("COLOR_MODEL"), Word("="), Word(model)>>)

\* "B r g b", "F r g b", "N r g b"
SpecialRow(t, c) == Line(<<Word(t)>> \o Nums(c))

\* "pos1 c1a c1b c1c pos2 c2a c2b c2c"
DataRow(x1, c1, x2, c2) == Line(Nums(<<x1>> \o c1 \o <<x2>> \o c2))

\* a.b with a floor that also serves a negative divisor
Quot(a, b) == IF b > 0 THEN a \div b ELSE (0 - a) \div (0 - b)

\* float(tok): "ValueError" for a word, "IndexError" for a missing token
FloatError(toks, k) ==
    IF k > Len(toks) THEN "IndexError"
    ELSE IF toks[k].word # "" THEN "ValueError"
    ELSE "none"

\* the first error of float(ls[0]) ... float(ls[n-1]), "none" without one
RECURSIVE FirstFloatError(_, _, _)
FirstFloatError(toks, k, n) ==
    IF k > n THEN "none"
    ELSE IF FloatError(toks, k) # "none" THEN FloatError(toks, k)
    ELSE FirstFloatError(toks, k + 1, n)

\* colorsys.hsv_to_rgb(h / 360., s, v) for raw numbers h, s, v: the colour
\* in units of 1/ValUnit
HsvToRgb(h, s, v) ==
    LET V == v * ValUnit
        i == h \div 60
        f == h % 60
        P == V * (1 - s)
        Q == (V * (60 - s * f)) \div 60
        T == (V * (60 - s * (60 - f))) \div 60
        k == i % 6
    IN  IF s = 0 THEN <<V, V, V>>
        ELSE CASE k = 0 -> <<V, T, P>>
               [] k = 1 -> <<Q, V, P>>
               [] k = 2 -> <<P, V, T>>
               [] k = 3 -> <<P, Q, V>>
               [] k = 4 -> <<T, P, V>>
               [] k = 5 -> <<V, P, Q>>

----------------------------------------------------------------------------
(* __colormap_from_cptfile, lines 354-412: the locals of the parser, one   *)
(* pass of its loop, and what follows the loop.                            *)

\* lines 354-358; xtemp, rtemp, gtemp, btemp are not yet bound
CptStart ==
    [i |-> 1, x |-> <<>>, r |-> <<>>, g |-> <<>>, b |-> <<>>,
     temp |-> <<0, 0, 0, 0>>, bound |-> FALSE, colorModel |-> "RGB",
     exc |-> "none", colordict |-> NoSegmentData]

\* l[0] == "#"
StartsWithHash(l) == ~l.indent /\ l.toks # <<>> /\ l.toks[1].word = "#"

IsSpecial(ls) == ls[1].word = "B" \/ ls[1].word = "F" \/ ls[1].word = "N"

\* CptLine with a line-local flag: a comment that does not end in HSV sets
\* the colour model back to RGB
CptLineLocalFlag(st, l) ==
    LET ls   == l.toks
        next == [st EXCEPT !.i = st.i + 1]
    IN  IF ls = <<>> THEN next
        ELSE IF StartsWithHash(l) THEN
            IF ls[Len(ls)].word = "HSV" THEN [next EXCEPT !.colorModel = "HSV"]
            ELSE [next EXCEPT !.colorModel = "RGB"]
        ELSE IF IsSpecial(ls) THEN next
        ELSE IF FirstFloatError(ls, 1, 8) # "none"
            THEN [next EXCEPT !.exc = FirstFloatError(ls, 1, 8)]
        ELSE [next EXCEPT !.x = Append(st.x, ls[1].num),
                          !.r = Append(st.r, ls[2].num),
                          !.g = Append(st.g, ls[3].num),
                          !.b = Append(st.b, ls[4].num),
                          !.temp = <<ls[5].num, ls[6].num, ls[7].num, ls[8].num>>,
                          !.bound = TRUE]

\* lines 360-380 for the line l
CptLine(st, l) ==
    LET ls   == l.toks
        next == [st EXCEPT !.i = st.i + 1]
    IN  IF ls = <<>> THEN next
        ELSE IF StartsWithHash(l) THEN
            IF ls[Len(ls)].word = "HSV" THEN [next EXCEPT !.colorModel = "HSV"]
            ELSE next
        ELSE IF IsSpecial(ls) THEN next
        ELSE IF FirstFloatError(ls, 1, 8) # "none"
            THEN [next EXCEPT !.exc = FirstFloatError(ls, 1, 8)]
        ELSE [next EXCEPT !.x = Append(st.x, ls[1].num),
                          !.r = Append(st.r, ls[2].num),
                          !.g = Append(st.g, ls[3].num),
                          !.b = Append(st.b, ls[4].num),
                          !.temp = <<ls[5].num, ls[6].num, ls[7].num, ls[8].num>>,
                          !.bound = TRUE]

\* lines 392-401: the colour of entry i in units of 1/ValUnit
CptColour(colorModel, r, g, b) ==
    IF colorModel = "HSV" THEN HsvToRgb(r, g, b)
    ELSE <<(r * ValUnit) \div 255, (g * ValUnit) \div 255, (b * ValUnit) \div 255>>

\* lines 382-412
CptFinish(st) ==
    IF ~st.bound THEN [st EXCEPT !.exc = "UnboundLocalError"]
    ELSE LET x == Append(st.x, st.temp[1])
             r == Append(st.r, st.temp[2])
             g == Append(st.g, st.temp[3])
             b == Append(st.b, st.temp[4])
             n == Len(x)
             c(i) == CptColour(st.colorModel, r[i], g[i], b[i])
             xNorm(i) == Quot((x[i] - x[1]) * PosUnit, x[n] - x[1])
             chan(k) == [i \in 1..n |-> <<xNorm(i), c(i)[k], c(i)[k]>>]
         IN  [st EXCEPT !.x = x, !.r = r, !.g = g, !.b = b,
                        !.colordict = SegmentData(chan(1), chan(2), chan(3))]

\* the loop over all lines from the state st on
RECURSIVE CptLoop(_, _)
CptLoop(st, lines) ==
    IF st.exc # "none" \/ st.i > Len(lines) THEN st
    ELSE CptLoop(CptLine(st, lines[st.i]), lines)

\* the whole parser on a file that exists
ColormapFromCptfile(lines) ==
    LET st == CptLoop(CptStart, lines)
    IN  IF st.exc # "none" THEN st ELSE CptFinish(st)

----------------------------------------------------------------------------
(* The other two parsers.  A parser's outcome is the exception it raises   *)
(* ("none" without one), whether it returns None, and the list it returns. *)

Raised(e) == [exc |-> e, isNone |-> FALSE, list |-> <<>>]

ReturnedNone == [exc |-> "none", isNone |-> TRUE, list |-> <<>>]

Returned(l) == [exc |-> "none", isNone |-> FALSE, list |-> l]

\* the first record of a .json file: RGBPoints (if present) and type
\* ("absent" without a type field)
JsonRecord(hasPoints, points, type) == [hasPoints |-> hasPoints, points |-> points, type |-> type]

NoJson == JsonRecord(FALSE, <<>>, "absent")

\* [points[x:x+3] for x in range(0, len(points), 4)]
Chunks(points) ==
    LET n == (Len(points) + 3) \div 4
    IN  [k \in 1..n |->
            SubSeq(points, 4 * (k - 1) + 1,
                   IF 4 * (k - 1) + 3 <= Len(points) THEN 4 * (k - 1) + 3 ELSE Len(points))]

\* __colormap_from_json, lines 467-484
ColormapFromJson(exists, rec) ==
    IF ~exists THEN Raised("UnboundLocalError")
    ELSE IF ~rec.hasPoints THEN ReturnedNone
    ELSE LET colormap_type == IF rec.type = "absent" THEN "segmented" ELSE rec.type
         IN  IF colormap_type = "segmented" THEN Returned(Chunks(rec.points))
             ELSE IF colormap_type = "listed" THEN Returned(Chunks(rec.points))
             ELSE Raised("UnboundLocalError")

\* lines 435-443 of __colormap_from_gdal: the first line that does not hold
\* three numbers ends the loop with its exception
RECURSIVE GdalLoopError(_, _)
GdalLoopError(lines, i) ==
    IF i > Len(lines) THEN "none"
    ELSE IF lines[i].toks # <<>> /\ FirstFloatError(lines[i].toks, 1, 3) # "none"
        THEN FirstFloatError(lines[i].toks, 1, 3)
    ELSE GdalLoopError(lines, i + 1)

\* __colormap_from_gdal, lines 423-455
ColormapFromGdal(exists, lines) ==
    IF ~exists THEN Raised("UnboundLocalError")
    ELSE IF GdalLoopError(lines, 1) # "none" THEN Raised(GdalLoopError(lines, 1))
    ELSE LET rows == SelectSeq(lines, LAMBDA l : l.toks # <<>>)
         IN  Returned([i \in 1..Len(rows) |->
                 <<(rows[i].toks[1].num * ValUnit) \div 255,
                   (rows[i].toks[2].num * ValUnit) \div 255,
                   (rows[i].toks[3].num * ValUnit) \div 255>>])

----------------------------------------------------------------------------
(* The state.                                                              *)
(*   pc    "new" before __init__, "cpt_loop" while the .cpt parser reads,  *)
(*         "live" once the instance exists, "failed" if __init__ raised    *)
(*   self  the attributes of the instance; object holds the reference      *)
(*         self._object, and is empty while the attribute is not set       *)
(*   heap  the matplotlib objects by reference                             *)
(*   ret   the reference the last call returned (empty for None)           *)
(*   err   the exception the last call raised, "none" if it returned       *)
(*   call  the last call: the method and its arguments                     *)
(*   file  the one file of the colormap directory (kind "none": no file)   *)
(*   loc   the local variables of __colormap_from_cptfile                  *)

StrArg(s) == [type |-> "str", str |-> s, list |-> <<>>, dict |-> NoSegmentData]

ListArg(l) == [type |-> "list", str |-> <<>>, list |-> l, dict |-> NoSegmentData]

DictArg(d) == [type |-> "dict", str |-> <<>>, list |-> <<>>, dict |-> d]

NoSelf == [arg |-> StrArg(<<>>), c_map_name |-> <<>>, extension |-> <<>>, object |-> {}]

\* the last call, and how many methods were called on the instance so far
Call(op, fn, weights, n) == [op |-> op, fn |-> fn, weights |-> weights, n |-> n]

\* the record of a method call made now
Method(op, fn, weights) == Call(op, fn, weights, call.n + 1)

NoFile == [kind |-> "none", lines |-> <<>>, json |-> NoJson]

CptFile(lines) == [kind |-> "cpt", lines |-> lines, json |-> NoJson]

CtFile(lines) == [kind |-> "ct", lines |-> lines, json |-> NoJson]

JsonFile(rec) == [kind |-> "json", lines |-> <<>>, json |-> rec]

ExtOf(kind) ==
    CASE kind = "cpt" -> ExtCpt
      [] kind = "ct" -> ExtCt
      [] kind = "json" -> ExtJson
      [] OTHER -> <<>>

\* open(os.path.join(CM_DIRPATH, self.c_map_name + self.extension)) succeeds
FileExists(me) == file.kind # "none" /\ me.c_map_name \o me.extension = Stem \o ExtOf(file.kind)

\* a reference not in use
NewRef(h) == CHOOSE r \in 1..Cardinality(DOMAIN h) + 1 : r \notin DOMAIN h

Store(h, r, o) == [x \in DOMAIN h \cup {r} |-> IF x = r THEN o ELSE h[x]]

\* the objects still referenced, by the instance or by the caller
Collect(h, roots) == [x \in DOMAIN h \cap roots |-> h[x]]

----------------------------------------------------------------------------
(* The files and constructor arguments the model draws *)

\* raw colour triples of a .cpt row: each reads differently as RGB (0-255)
\* and as HSV (degrees, 0-1, 0-1)
RawA == <<0, 1, 1>>
RawB == <<255, 0, 0>>

\* segments between neighbouring raw positions, and the whole range
XPairs == {<<x, x + 1>> : x \in 0..MaxX - 1} \cup {<<0, MaxX>>}

DataRows ==
    {DataRow(xp[1], cp[1], xp[2], cp[2]) :
        xp \in XPairs, cp \in {<<RawA, RawA>>, <<RawA, RawB>>, <<RawB, RawB>>}}

CptLines ==
    {BlankLine, CommentLine("RGB"), CommentLine("HSV"),
     Indented(<<Word("#"), Word("HSV")>>),
     SpecialRow("B", <<0, 0, 255>>), SpecialRow("F", <<255, 255, 0>>),
     SpecialRow("N", <<128, 128, 128>>)}
    \cup DataRows

\* a line the parser takes for a segment row, and reads without an error
IsDataRow(l) ==
    /\ l.toks # <<>>
    /\ ~StartsWithHash(l)
    /\ ~IsSpecial(l.toks)
    /\ FirstFloatError(l.toks, 1, 8) = "none"

\* x[-1] - x[0] of line 402 is not 0 (with 0 numpy yields nan and inf
\* positions, which the model's integers do not hold): the files drawn are
\* those with no data row, or whose first data row starts where the last
\* one does not end
FiniteFile(lines) ==
    LET rows == SelectSeq(lines, IsDataRow)
    IN  rows = <<>> \/ rows[1].toks[1] # rows[Len(rows)].toks[5]

\* the .cpt files the parser is checked on
CptFiles == {CptFile(l) : l \in {f \in SeqsBetween(CptLines, 0, MaxLen) : FiniteFile(f)}}

\* the files the constructor is checked on
SomeFiles ==
    {NoFile}
    \cup {CptFile(l) : l \in SeqsBetween(CptLines, 1, 1)}
    \cup {CptFile(<<CommentLine("HSV"), DataRow(0, RawA, 1, RawB), DataRow(1, RawB, 2, RawA)>>)}
    \cup {CtFile(<<Line(Nums(<<0, 0, 0>>)), BlankLine, Line(Nums(<<255, 255, 255>>))>>),
          CtFile(<<Line(Nums(<<0, 0>>))>>)}
    \cup {JsonFile(JsonRecord(hp, <<0, ValUnit, 0, 0, ValUnit, 0, 0, ValUnit>>, t)) :
            hp \in BOOLEAN, t \in {"absent", "listed", "other"}}

Args ==
    {StrArg(s) : s \in Registered \cup {NameUnknown}
                       \cup {Stem \o e : e \in {ExtCpt, ExtCt, ExtJson, ExtTxt}}}
    \cup {ListArg(l) : l \in ColourLists}
    \cup {DictArg(d) : d \in SegmentDicts}

\* the arguments worth trying with the directory as it is: with a file in
\* it, the name of that file
ArgsFor(f) == IF f.kind = "none" THEN Args ELSE {StrArg(Stem \o ExtOf(f.kind))}

----------------------------------------------------------------------------
(* Construction *)

NoCall == Call("none", "id", 0, 0)

InitWith(files) ==
    /\ pc = "new"
    /\ self = NoSelf
    /\ heap = <<>>
    /\ ret = {}
    /\ err = "none"
    /\ call = NoCall
    /\ file \in files
    /\ loc = CptStart

Init == InitWith(SomeFiles)

InitCpt == InitWith(CptFiles)

\* __init__ raises e: no instance comes to exist
Fail(me, e) ==
    /\ pc' = "failed"
    /\ self' = me
    /\ heap' = <<>>
    /\ err' = e

\* __init__ returns with self._object bound to the new object o
Bind(me, o) ==
    /\ pc' = "live"
    /\ self' = [me EXCEPT !.object = {NewRef(heap)}]
    /\ heap' = Store(heap, NewRef(heap), o)
    /\ err' = "none"

\* __init__, lines 62-98 (for a .cpt file that exists: up to the parser's loop)
Construct(arg) ==
    /\ pc = "new"
    /\ call' = Call("__init__", "id", 0, 0)
    /\ ret' = {}
    /\ UNCHANGED file
    /\ LET me0 == [NoSelf EXCEPT !.arg = arg, !.c_map_name = <<"d", "e", "f", "a", "u", "l", "t">>]
           me1 == [me0 EXCEPT !.c_map_name = SplitExt(arg.str)[1], !.extension = SplitExt(arg.str)[2]]
       IN  IF arg.type = "str" /\ arg.str \in Registered THEN
               Bind([me0 EXCEPT !.c_map_name = arg.str], GetCmap(arg.str)) /\ UNCHANGED loc
           ELSE IF arg.type = "list" THEN
               Bind(me0, ListedColormap(arg.list)) /\ UNCHANGED loc
           ELSE IF arg.type = "dict" THEN
               Bind(me0, LinearSegmentedColormap(arg.dict, LutN)) /\ UNCHANGED loc
           ELSE IF HasDot(arg.str) THEN
               IF me1.extension = ExtCpt THEN
                   IF FileExists(me1)
                   THEN /\ pc' = "cpt_loop"
                        /\ self' = me1
                        /\ loc' = CptStart
                        /\ UNCHANGED <<heap, err>>
                   ELSE Bind(me1, SegmentedOfNone) /\ UNCHANGED loc
               ELSE IF me1.extension = ExtCt THEN
                   LET got == ColormapFromGdal(FileExists(me1), file.lines)
                   IN  /\ Fail(me1, IF got.exc # "none" THEN got.exc ELSE "TypeError")
                       /\ UNCHANGED loc
               ELSE IF me1.extension = ExtJson THEN
                   LET got == ColormapFromJson(FileExists(me1), file.json)
                   IN  /\ IF got.exc # "none" THEN Fail(me1, got.exc)
                          ELSE IF got.isNone THEN Fail(me1, "TypeError")
                          ELSE Bind(me1, ListedColormap(got.list))
                       /\ UNCHANGED loc
               ELSE /\ pc' = "live"
                    /\ self' = me1
                    /\ UNCHANGED <<heap, err, loc>>
           ELSE Fail(me0, "ValueError") /\ UNCHANGED loc

\* one pass of the loop of lines 359-380
CptReadLine ==
    /\ pc = "cpt_loop"
    /\ loc.i <= Len(file.lines)
    /\ loc' = CptLine(loc, file.lines[loc.i])
    /\ IF loc'.exc # "none"
       THEN Fail(self, loc'.exc)
       ELSE UNCHANGED <<pc, self, heap, err>>
    /\ UNCHANGED <<ret, call, file>>

\* lines 382-412, and line 83 with what the parser returns
CptAfterLoop ==
    /\ pc = "cpt_loop"
    /\ loc.i > Len(file.lines)
    /\ loc' = CptFinish(loc)
    /\ IF loc'.exc # "none"
       THEN Fail(self, loc'.exc)
       ELSE Bind(self, LinearSegmentedColormap(loc'.colordict, LutN))
    /\ UNCHANGED <<ret, call, file>>

----------------------------------------------------------------------------
(* The methods of a constructed instance *)

Ref(me) == CHOOSE r \in me.object : TRUE

\* the call ends: the instance has _object = obj, the caller got r, the
\* exception was e; objects nobody refers to are gone
Done(obj, h, r, e, c) ==
    /\ self' = [self EXCEPT !.object = obj]
    /\ heap' = Collect(h, obj \cup r)
    /\ ret' = r
    /\ err' = e
    /\ call' = c
    /\ UNCHANGED <<pc, file, loc>>

\* a method that reads self._object of an instance without one
NoObject(c) == Done(self.object, heap, {}, "AttributeError", c)

\* to_matplotlib, lines 220-224
ToMatplotlib ==
    /\ pc = "live"
    /\ call.n < MaxCalls
    /\ IF self.object = {} THEN NoObject(Method("to_matplotlib", "id", 0))
       ELSE Done(self.object, heap, self.object, "none", Method("to_matplotlib", "id", 0))

\* lines 326-328 for one entry of the segment dict
ReverseChannel(ch) ==
    LET items == ChannelItems(ch)
    IN  Sorted([i \in 1..Len(items) |-> <<PosUnit - items[i][1], items[i][3], items[i][2]>>])

\* the object lines 314-331 build from the object o
ReverseObject(o) ==
    IF o.kind = "Listed" THEN ListedColormap(Reversed(o.colors))
    ELSE LinearSegmentedColormap(
             [key \in {"red", "green", "blue"} |-> ListChannel(ReverseChannel(o.segmentdata[key]))],
             LutN)

\* the object o after every entry of its segment dict was looped over
DrainedObject(o) ==
    [o EXCEPT !.segmentdata = [key \in {"red", "green", "blue"} |-> Drained(o.segmentdata[key])]]

\* reverse, lines 309-332
Reverse ==
    /\ pc = "live"
    /\ call.n < MaxCalls
    /\ LET c == Method("reverse", "id", 0)
           o == heap[Ref(self)]
           r == NewRef(heap)
       IN  IF self.object = {} THEN NoObject(c)
           ELSE IF o.kind = "Segmented" /\ o.isNone THEN Done(self.object, heap, {}, "TypeError", c)
           ELSE Done({r}, Store(heap, r, ReverseObject(o)), {r}, "none", c)

\* from_gradient, lines 123-132
FromGradient ==
    /\ pc = "live"
    /\ call.n < MaxCalls
    /\ LET c == Method("from_gradient", "id", 0)
           o == heap[Ref(self)]
           r == NewRef(heap)
       IN  IF self.object = {} THEN NoObject(c)
           ELSE IF o.kind = "Segmented" THEN Done(self.object, heap, {}, "AttributeError", c)
           ELSE Done({r}, Store(heap, r, FromList(o.colors, LutN)), {}, "none", c)

\* listed2segmented, lines 135-147
Listed2Segmented ==
    /\ pc = "live"
    /\ call.n < MaxCalls
    /\ LET c == Method("listed2segmented", "id", 0)
           o == heap[Ref(self)]
           r == NewRef(heap)
       IN  IF self.object = {} THEN NoObject(c)
           ELSE IF o.kind = "Listed"
               THEN Done({r}, Store(heap, r, FromList(o.colors, LutN)), {}, "none", c)
           ELSE Done(self.object, heap, {}, "none", c)

\* lines 205-213: the luminance of the colour c under the profile weights
\* (1, 2 or 3), the weights being written in 1/10000 and in 1/1000
Luminance(weights, c) ==
    CASE weights = 1 -> (2126 * c[1] + 7152 * c[2] + 722 * c[3]) \div 10000
      [] weights = 2 -> (299 * c[1] + 587 * c[2] + 114 * c[3]) \div 1000
      [] weights = 3 -> ISqrt((299 * c[1] * c[1] + 587 * c[2] * c[2] + 114 * c[3] * c[3]) \div 1000)

\* is `luminance` bound when line 217 reads it
LuminanceBound(weights) == weights = 1 \/ weights = 2 \/ weights = 3

\* lines 217-218: every sample with its luminance in the three channels,
\* made a Segmented map of the same size
GreyObject(o, weights) ==
    LET colors == Lut(o)
        grey   == [i \in 1..Len(colors) |->
                      LET l == Luminance(weights, colors[i]) IN <<l, l, l>>]
    IN  FromList(grey, o.N)

\* the selectors a caller may pass
WeightArgs == 0..3

\* convert2greyscale with an else branch that falls back to the first
\* profile instead of leaving `luminance` unbound
Convert2GreyscaleFallback(weights) ==
    /\ pc = "live"
    /\ call.n < MaxCalls
    /\ LET c == Method("convert2greyscale", "id", weights)
           o == heap[Ref(self)]
           r == NewRef(heap)
           sampled == Store(heap, Ref(self), Initialised(o))
           w == IF LuminanceBound(weights) THEN weights ELSE 1
       IN  IF self.object = {} THEN NoObject(c)
           ELSE IF InitError(o) # "none" THEN Done(self.object, heap, {}, InitError(o), c)
           ELSE Done({r}, Store(sampled, r, GreyObject(o, w)), {}, "none", c)

\* convert2greyscale, lines 192-218
Convert2Greyscale(weights) ==
    /\ pc = "live"
    /\ call.n < MaxCalls
    /\ LET c == Method("convert2greyscale", "id", weights)
           o == heap[Ref(self)]
           r == NewRef(heap)
           sampled == Store(heap, Ref(self), Initialised(o))
       IN  IF self.object = {} THEN NoObject(c)
           ELSE IF InitError(o) # "none" THEN Done(self.object, heap, {}, InitError(o), c)
           ELSE IF ~LuminanceBound(weights)
               THEN Done(self.object, sampled, {}, "UnboundLocalError", c)
           ELSE Done({r}, Store(sampled, r, GreyObject(o, weights)), {}, "none", c)

\* the elements of a set of positions in some order
RECURSIVE SetToSeq(_)
SetToSeq(S) ==
    IF S = {} THEN <<>>
    ELSE LET x == CHOOSE y \in S : TRUE IN <<x>> \o SetToSeq(S \ {x})

\* line 498 for one key: the positions of the entry's points
StepsOf(ch) == Positions(ChannelItems(ch))

\* lines 499-500
StepList(o) == UNION {StepsOf(o.segmentdata[key]) : key \in {"red", "green", "blue"}}

\* ThisCdict without the pruning: every step of every channel is kept
ThisCdictUnpruned(step_list, j, own, old_LUT, new_LUT, i) ==
    [k \in 1..Len(step_list) - j + 1 |-> <<step_list[k + j - 1], new_LUT[k + j - 1][i]>>]

\* lines 509-513 for the steps from the j-th on: the dict this_cdict, a
\* step being kept if the channel had a point there, or else if the
\* function changed the channel's value there
RECURSIVE ThisCdict(_, _, _, _, _, _)
ThisCdict(step_list, j, own, old_LUT, new_LUT, i) ==
    IF j > Len(step_list) THEN <<>>
    ELSE LET rest == ThisCdict(step_list, j + 1, own, old_LUT, new_LUT, i)
             step == step_list[j]
         IN  IF step \in own THEN <<<<step, new_LUT[j][i]>>>> \o rest
             ELSE IF new_LUT[j][i] # old_LUT[j][i] THEN <<<<step, new_LUT[j][i]>>>> \o rest
             ELSE rest

\* lines 507-516 for channel i of an object o whose table is built: the
\* items of this_cdict with the value a second time, sorted
ChangedChannel(o, i, f) ==
    LET step_list == SetToSeq(StepList(o))
        old_LUT   == [j \in 1..Len(step_list) |-> AtPosition(o, step_list[j])]
        new_LUT   == [j \in 1..Len(step_list) |-> ApplyV(f, old_LUT[j])]
        items     == ThisCdict(step_list, 1, StepsOf(o.segmentdata[Keys[i]]), old_LUT, new_LUT, i)
    IN  Sorted([j \in 1..Len(items) |-> <<items[j][1], items[j][2], items[j][2]>>])

\* the object change returns, lines 494-518
ChangedObject(o, f) ==
    LinearSegmentedColormap(
        SegmentData(ChangedChannel(o, 1, f), ChangedChannel(o, 2, f), ChangedChannel(o, 3, f)),
        1024)

\* change, lines 487-520
Change(f) ==
    /\ pc = "live"
    /\ call.n < MaxCalls
    /\ LET c == Method("change", f, 0)
           o == heap[Ref(self)]
           r == NewRef(heap)
           looped == DrainedObject(o)
           e == IF StepList(o) = {} THEN "none" ELSE InitError(looped)
           sampled == IF StepList(o) = {} THEN looped ELSE Initialised(looped)
       IN  IF self.object = {} THEN NoObject(c)
           ELSE IF o.kind = "Listed" THEN Done(self.object, heap, {}, "none", c)
           ELSE IF o.isNone THEN Done(self.object, heap, {}, "TypeError", c)
           ELSE IF e # "none" THEN Done(self.object, Store(heap, Ref(self), looped), {}, e, c)
           ELSE Done(self.object,
                     Store(Store(heap, Ref(self), sampled), r,
                           ChangedObject([sampled EXCEPT !.segmentdata = o.segmentdata], f)),
                     {r}, "none", c)

\* cmap_xmap, lines 522-539: line 532 puts a map iterator in place of the
\* red list, and line 533 calls sort() on it, which an iterator does not have
CmapXmap(g) ==
    /\ pc = "live"
    /\ call.n < MaxCalls
    /\ LET c == Method("cmap_xmap", g, 0)
           o == heap[Ref(self)]
       IN  IF self.object = {} THEN NoObject(c)
           ELSE IF o.kind = "Listed" THEN Done(self.object, heap, {}, "none", c)
           ELSE IF o.isNone THEN Done(self.object, heap, {}, "TypeError", c)
           ELSE Done(self.object,
                     Store(heap, Ref(self),
                           [o EXCEPT !.segmentdata.red = MapChannel(g, o.segmentdata.red)]),
                     {}, "AttributeError", c)

----------------------------------------------------------------------------
(* The specifications *)

Next ==
    \/ \E arg \in ArgsFor(file) : Construct(arg)
    \/ CptReadLine
    \/ CptAfterLoop
    \/ ToMatplotlib
    \/ Reverse
    \/ FromGradient
    \/ Listed2Segmented
    \/ \E weights \in WeightArgs : Convert2Greyscale(weights)
    \/ \E f \in VFuncs : Change(f)
    \/ \E g \in XFuncs : CmapXmap(g)

\* the instance from its construction on
Spec == Init /\ [][Next]_vars

NextCpt ==
    \/ \E arg \in ArgsFor(file) : Construct(arg)
    \/ CptReadLine
    \/ CptAfterLoop

\* the constructor on the .cpt files
SpecCpt == InitCpt /\ [][NextCpt]_vars

----------------------------------------------------------------------------
(* What the claims speak of *)

ChannelKeys == {"red", "green", "blue"}

\* a map of the data model: Listed, or Segmented with three lists of
\* points from 0 to 1, not decreasing
InDataModel(o) ==
    \/ o.kind = "Listed"
    \/ /\ ~o.isNone
       /\ \A key \in ChannelKeys : ValidChannel(o.segmentdata[key])

\* the colours and control-point lists of a map (not its lookup table,
\* which is derived from them)
Data(o) == [kind |-> o.kind, colors |-> o.colors, segmentdata |-> o.segmentdata, isNone |-> o.isNone]

\* two maps evaluate alike at every entry of a lookup table of n entries
EvaluateAlike(a, b, n) ==
    Lut([a EXCEPT !.N = n, !.lut = <<>>]) = Lut([b EXCEPT !.N = n, !.lut = <<>>])

HasObject == pc = "live" /\ self.object # {}

TransformOps ==
    {"reverse", "from_gradient", "listed2segmented", "convert2greyscale", "change", "cmap_xmap"}

\* C1: reverse is an involution: for every Listed map and every Segmented
\* map of the data model (two points of a list may share a position),
\* reversing the reverse gives the same colours and the same control-point
\* lists in the same order, and so the same value at every position.
C1_ReverseInvolution ==
    (HasObject /\ InDataModel(heap[Ref(self)])) =>
        LET m  == heap[Ref(self)]
            rr == ReverseObject(ReverseObject(m))
        IN  /\ Data(rr) = Data(m)
            /\ EvaluateAlike(rr, m, LutN)

\* C2: every transform is pure: over a call of reverse, from_gradient,
\* listed2segmented, convert2greyscale, change or cmap_xmap, every map object
\* that exists before and after the call (the map passed in, as long as
\* the instance or the caller still refers to it) keeps its colours and its
\* control-point lists, and a map the call returns is a new object.
C2_TransformsPure ==
    [][(call'.n = call.n + 1 /\ call'.op \in TransformOps) =>
          /\ \A r \in DOMAIN heap \cap DOMAIN heap' : Data(heap'[r]) = Data(heap[r])
          /\ ret' \cap DOMAIN heap = {}]_vars

\* the input of the cmap_xmap call just made was a Segmented map of the data
\* model: its red entry is the list the call wrapped in one map iterator
XmapOnDataModel ==
    /\ HasObject
    /\ call.op = "cmap_xmap"
    /\ LET o == heap[Ref(self)]
       IN  /\ o.kind = "Segmented"
           /\ ~o.isNone
           /\ Len(o.segmentdata.red.fns) = 1
           /\ \A key \in ChannelKeys :
                  ValidChannel(ListChannel(o.segmentdata[key].pts))

\* the function of the cmap_xmap call just made takes a point of the red,
\* green or blue list out of [0,1]
XmapLeavesDomain ==
    LET o == heap[Ref(self)]
    IN  \E key \in ChannelKeys : \E i \in 1..Len(o.segmentdata[key].pts) :
            ApplyX(call.fn, o.segmentdata[key].pts[i][1]) \notin 0..PosUnit

\* C3: position remap on a Segmented map fails with the domain error (the
\* assertion of line 534) exactly when the function takes some control-point
\* position out of [0,1]; otherwise it returns a map, and with g(p) = p a
\* map equal to the input.
C3_XmapDomain ==
    XmapOnDataModel =>
        IF XmapLeavesDomain THEN err = "AssertionError"
        ELSE /\ err = "none"
             /\ ret # {}
             /\ call.fn = "id" =>
                    \A key \in ChannelKeys :
                        heap[Ref([object |-> ret])].segmentdata[key].pts
                            = heap[Ref(self)].segmentdata[key].pts

\* the change call just made was on a Segmented map of the data model and
\* returned a map
ChangeOnDataModel ==
    /\ HasObject
    /\ call.op = "change"
    /\ err = "none"
    /\ ret # {}
    /\ InDataModel(heap[Ref(self)])

\* the breakpoints of a list of points
Breakpoints(pts) == {pts[i][1] : i \in 1..Len(pts)}

\* the colour of the map m at position p, from its control-point lists
ValueAt(m, p) == AtPosition([m EXCEPT !.lut = <<>>], p)

\* C4: value remap builds a minimal segment list: channel c of the map
\* change returns has a control point at p, a breakpoint of some channel of
\* the input, exactly if p was a breakpoint of channel c or the function
\* changed the value of channel c at p; each point carries the function's
\* value for the channel on both sides, and each list is sorted by
\* ascending position.
C4_ChangeMinimal ==
    ChangeOnDataModel =>
        LET m     == heap[Ref(self)]
            out   == heap[Ref([object |-> ret])]
            union == UNION {Breakpoints(m.segmentdata[key].pts) : key \in ChannelKeys}
        IN  \A c \in 1..3 :
                LET pts == out.segmentdata[Keys[c]].pts
                    own == Breakpoints(m.segmentdata[Keys[c]].pts)
                IN  /\ ~out.segmentdata[Keys[c]].lazy
                    /\ Breakpoints(pts) \subseteq union
                    /\ \A p \in union :
                           p \in Breakpoints(pts) <=>
                               \/ p \in own
                               \/ ApplyV(call.fn, ValueAt(m, p))[c] # ValueAt(m, p)[c]
                    /\ \A i \in 1..Len(pts) :
                           /\ pts[i][2] = ApplyV(call.fn, ValueAt(m, pts[i][1]))[c]
                           /\ pts[i][3] = pts[i][2]
                    /\ \A i \in 1..Len(pts) - 1 : pts[i][1] < pts[i + 1][1]

\* a change call pruned a breakpoint of another channel where the function
\* changed nothing, and kept one where it changed the value
C4_Witness ==
    /\ ChangeOnDataModel
    /\ call.fn = "dark"
    /\ LET m   == heap[Ref(self)]
           out == heap[Ref([object |-> ret])]
           red == Breakpoints(m.segmentdata.red.pts)
           grn == Breakpoints(m.segmentdata.green.pts)
       IN  /\ \E p \in red \ grn : p \notin Breakpoints(out.segmentdata.green.pts)
           /\ \E p \in red \ grn : p \in Breakpoints(out.segmentdata.green.pts)

\* the lines of the file the parser takes for segment rows, for special
\* rows, and for a comment that ends in the HSV token
RowsOf(lines) == SelectSeq(lines, IsDataRow)

IsSpecialRow(l) == l.toks # <<>> /\ ~StartsWithHash(l) /\ IsSpecial(l.toks)

IsHsvComment(l) == StartsWithHash(l) /\ l.toks[Len(l.toks)].word = "HSV"

\* the colour model of a file: HSV if some comment line ends in HSV
ModelOf(lines) == IF \E i \in 1..Len(lines) : IsHsvComment(lines[i]) THEN "HSV" ELSE "RGB"

\* the constructor has built a map from the .cpt file
CptBuilt == pc = "live" /\ self.extension = ExtCpt /\ file.kind = "cpt" /\ self.object # {}

\* C5: a row whose first token is B, F or N never adds a control point to
\* the red, green or blue list (each list has one point per segment row and
\* one more), and its colour is recorded apart from them, under its token,
\* in what the parser returns or in the instance.
C5_SpecialRowsRecorded ==
    CptBuilt =>
        LET o == heap[Ref(self)]
        IN  /\ \A key \in ChannelKeys :
                   Len(o.segmentdata[key].pts) = Len(RowsOf(file.lines)) + 1
            /\ \A i \in 1..Len(file.lines) :
                   IsSpecialRow(file.lines[i]) =>
                       \/ file.lines[i].toks[1].word \in DOMAIN o.segmentdata
                       \/ file.lines[i].toks[1].word \in DOMAIN self

\* the argument is a name with an extension that is none of the three
UnsupportedExtension ==
    /\ self.arg.type = "str"
    /\ self.arg.str \notin Registered
    /\ HasDot(self.arg.str)
    /\ SplitExt(self.arg.str)[2] \notin {ExtCpt, ExtCt, ExtJson}

\* C6: constructing from a name with an extension other than .cpt, .ct and
\* .json (and not a registered name) fails with the unsupported-extension
\* error (the ValueError of line 98), and no construction leaves an instance
\* without its map object.
C6_UnsupportedExtension ==
    /\ (pc \in {"live", "failed"} /\ UnsupportedExtension) => (pc = "failed" /\ err = "ValueError")
    /\ pc = "live" => self.object # {}

\* the constructor was given a .json file whose record has no RGBPoints
JsonWithoutPoints ==
    /\ pc \in {"live", "failed"}
    /\ self.extension = ExtJson
    /\ FileExists(self)
    /\ ~file.json.hasPoints

\* C7: for a record without RGBPoints the JSON parser raises an error; it
\* returns no null and no empty colour list, and no colormap is constructed.
C7_JsonMissingPoints ==
    JsonWithoutPoints =>
        LET got == ColormapFromJson(TRUE, file.json)
        IN  /\ got.exc # "none"
            /\ ~got.isNone
            /\ pc = "failed"

\* C8: convert2greyscale with a selector other than 1, 2 and 3 ends in an
\* error, and the instance holds the same map, with the same colours and
\* control-point lists, as before the call.
C8_GreyscaleBadSelector ==
    [][(call'.n = call.n + 1 /\ call'.op = "convert2greyscale" /\ call'.weights \notin {1, 2, 3}) =>
          /\ err' # "none"
          /\ self' = self
          /\ self.object # {} => Data(heap'[Ref(self)]) = Data(heap[Ref(self)])]_vars

\* convert2greyscale was called with selector 0 on a map that can be
\* sampled, and ended at line 217
C8_Witness ==
    /\ HasObject
    /\ call.op = "convert2greyscale"
    /\ call.weights = 0
    /\ err = "UnboundLocalError"
    /\ InDataModel(heap[Ref(self)])
    /\ heap[Ref(self)].lut # <<>>

\* C9: the parser builds the lists from both ends of every row: where a
\* row ends at the position the next row starts at, the control point there
\* has the earlier row's end colour as value_before and the later row's
\* start colour as value_after.
C9_BothEndpoints ==
    CptBuilt =>
        LET o    == heap[Ref(self)]
            rows == RowsOf(file.lines)
            col(l, k) == CptColour(ModelOf(file.lines), l.toks[k].num, l.toks[k + 1].num, l.toks[k + 2].num)
        IN  \A k \in 1..Len(rows) - 1 :
                rows[k].toks[5] = rows[k + 1].toks[1] =>
                    \A c \in 1..3 :
                        /\ o.segmentdata[Keys[c]].pts[k + 1][2] = col(rows[k], 6)[c]
                        /\ o.segmentdata[Keys[c]].pts[k + 1][3] = col(rows[k + 1], 2)[c]

\* C10: the colour model is a flag of the whole file: while the parser
\* reads, the flag says HSV exactly if a comment line read so far ended in
\* HSV (so no later line resets it), and every value of the map built is
\* the row's colour converted with the one model of the file, HSV exactly if
\* some comment line ends in HSV.
C10_ColourModelGlobal ==
    /\ pc = "cpt_loop" =>
           (loc.colorModel = "HSV" <=>
               \E j \in 1..loc.i - 1 : IsHsvComment(file.lines[j]))
    /\ CptBuilt =>
           LET o    == heap[Ref(self)]
               rows == RowsOf(file.lines)
               n    == Len(rows)
               raw(i) == IF i <= n THEN SubSeq(rows[i].toks, 2, 4) ELSE SubSeq(rows[n].toks, 6, 8)
               col(i) == CptColour(ModelOf(file.lines), raw(i)[1].num, raw(i)[2].num, raw(i)[3].num)
           IN  \A c \in 1..3 : \A i \in 1..n + 1 :
                   /\ o.segmentdata[Keys[c]].pts[i][2] = col(i)[c]
                   /\ o.segmentdata[Keys[c]].pts[i][3] = col(i)[c]

\* a map was built from a file whose HSV comment stands after a segment row
\* and before another comment, and its values are the HSV reading, which
\* differs from the RGB reading
C10_Witness ==
    /\ CptBuilt
    /\ \E i, j, k \in 1..Len(file.lines) :
           /\ i < j /\ j < k
           /\ IsDataRow(file.lines[i])
           /\ IsHsvComment(file.lines[j])
           /\ StartsWithHash(file.lines[k]) /\ ~IsHsvComment(file.lines[k])
    /\ LET t == RowsOf(file.lines)[1].toks
       IN  /\ heap[Ref(self)].segmentdata.red.pts[1][2] = HsvToRgb(t[2].num, t[3].num, t[4].num)[1]
           /\ HsvToRgb(t[2].num, t[3].num, t[4].num) # CptColour("RGB", t[2].num, t[3].num, t[4].num)

\* the raw positions of all data rows of a file: every row's start and end
RawPositions(lines) ==
    LET rows == RowsOf(lines)
    IN  {rows[k].toks[1].num : k \in 1..Len(rows)} \cup {rows[k].toks[5].num : k \in 1..Len(rows)}

\* the smallest and the largest of a set of positions
PosMin(S) == CHOOSE m \in S : \A q \in S : m <= q

PosMax(S) == CHOOSE m \in S : \A q \in S : q <= m

\* C11: for a file whose data rows hold at least two distinct positions,
\* every control point stands at (pos - pos_min) / (pos_max - pos_min), pos
\* being the raw position it was read from (the start of its row, and for
\* the last point the end of the last row) and pos_min, pos_max the smallest
\* and largest raw position over all data rows; every stored position lies
\* in [0,1], some position is 0 and some is 1, whatever the order of rows.
C11_PositionsNormalised ==
    (CptBuilt /\ Cardinality(RawPositions(file.lines)) >= 2) =>
        LET o    == heap[Ref(self)]
            rows == RowsOf(file.lines)
            n    == Len(rows)
            lo   == PosMin(RawPositions(file.lines))
            hi   == PosMax(RawPositions(file.lines))
            pos(i) == IF i <= n THEN rows[i].toks[1].num ELSE rows[n].toks[5].num
        IN  \A key \in ChannelKeys :
                LET pts == o.segmentdata[key].pts
                IN  /\ Len(pts) = n + 1
                    /\ \A i \in 1..Len(pts) :
                           /\ pts[i][1] * (hi - lo) = (pos(i) - lo) * PosUnit
                           /\ 0 <= pts[i][1] /\ pts[i][1] <= PosUnit
                    /\ \E i \in 1..Len(pts) : pts[i][1] = 0
                    /\ \E i \in 1..Len(pts) : pts[i][1] = PosUnit

====
